---------------------------- MODULE Spec2Model ----------------------------
(***************************************************************************)
(* Kelly: the emotion catalog (EmotionEngine) and the wound -> emotion ->  *)
(* rule-break -> parameter pipeline (IntentProcessor).                     *)
(*                                                                         *)
(* Numbers.  Every float of the program is a decimal with at most two      *)
(* fractional digits, or a product of such a decimal and an intensity      *)
(* level 1.0 / 0.6 / 0.3.  A float x is represented by the integer         *)
(* x * 10000, so products, sums and the tempo formula are exact.  The      *)
(* program's threshold comparisons (> 0.8f, < -0.5f, > 0.7f) only meet an  *)
(* equal operand at intensity level 1.0f, where the float product is exact *)
(* too, so the exact comparison decides as the float comparison does.      *)
(* std::sqrt(r) is represented by its radicand r; sqrt(r) < t is decided   *)
(* as t > 0 /\ r < t * t.                                                  *)
(*                                                                         *)
(* Text.  A std::string the program inspects character by character (a     *)
(* wound description) is a sequence of one-character strings; names and    *)
(* keys the program only compares or concatenates are TLA+ strings.        *)
(***************************************************************************)
EXTENDS Integers, Sequences, FiniteSets, TLC

VARIABLES
    nodes_,         \* EmotionEngine::nodes_ : id -> EmotionNode
    woundHistory_,  \* IntentProcessor::woundHistory_
    ruleBreaks_,    \* IntentProcessor::ruleBreaks_
    ret,            \* the last call: its name, arguments and return value
    calls,          \* number of calls made on the instance so far
    woundCalls,     \* number of processWound / processIntent calls so far
    returned,       \* concatenation of every emotionToRuleBreaks return value
    firstResult     \* wound -> the first IntentResult processIntent gave it

vars == <<nodes_, woundHistory_, ruleBreaks_, ret, calls, woundCalls, returned, firstResult>>

---------------------------------------------------------------------------
(* Fixed point *)

\* the float literal h/100
Dec(h) == h * 100

\* float product of two represented values
FMul(a, b) == (a * b) \div 10000

FAbs(a) == IF a < 0 THEN 0 - a ELSE a

\* a null pointer / an empty lookup result
NULL == [null |-> TRUE]

---------------------------------------------------------------------------
(* EmotionEngine::initializeEmotions *)

\* the variant table: <<category, <<name, valence, arousal>> x 9>> x 8
categoryVariants ==
  << <<"Joy", <<
        <<"euphoria", 100, 100>>, <<"ecstasy", 95, 95>>, <<"elation", 85, 90>>,
        <<"delight", 80, 70>>, <<"happiness", 70, 60>>, <<"contentment", 70, 30>>,
        <<"serenity", 60, 20>>, <<"satisfaction", 50, 40>>, <<"cheerfulness", 60, 50>> >> >>,
     <<"Sadness", <<
        <<"grief", -90, 70>>, <<"despair", -95, 60>>, <<"sorrow", -80, 50>>,
        <<"melancholy", -60, 30>>, <<"gloom", -50, 40>>, <<"disappointment", -40, 30>>,
        <<"loneliness", -60, 20>>, <<"nostalgia", -30, 20>>, <<"wistfulness", -20, 15>> >> >>,
     <<"Anger", <<
        <<"rage", -80, 100>>, <<"fury", -85, 95>>, <<"wrath", -75, 90>>,
        <<"hostility", -60, 70>>, <<"resentment", -50, 50>>, <<"annoyance", -40, 50>>,
        <<"irritation", -35, 45>>, <<"frustration", -45, 55>>, <<"bitterness", -50, 40>> >> >>,
     <<"Fear", <<
        <<"terror", -90, 100>>, <<"panic", -85, 95>>, <<"horror", -80, 90>>,
        <<"dread", -70, 70>>, <<"anxiety", -50, 80>>, <<"worry", -40, 60>>,
        <<"unease", -30, 50>>, <<"apprehension", -35, 55>>, <<"nervousness", -30, 65>> >> >>,
     <<"Surprise", <<
        <<"amazement", 60, 95>>, <<"astonishment", 50, 90>>, <<"awe", 40, 70>>,
        <<"wonder", 50, 60>>, <<"shock", -10, 90>>, <<"startle", 0, 85>>,
        <<"bewilderment", -10, 60>>, <<"confusion", -20, 50>>, <<"curiosity", 30, 50>> >> >>,
     <<"Disgust", <<
        <<"revulsion", -90, 80>>, <<"loathing", -85, 70>>, <<"abhorrence", -80, 75>>,
        <<"contempt", -60, 50>>, <<"aversion", -50, 45>>, <<"distaste", -40, 35>>,
        <<"dislike", -30, 30>>, <<"disapproval", -35, 40>>, <<"repugnance", -70, 60>> >> >>,
     <<"Trust", <<
        <<"admiration", 80, 50>>, <<"adoration", 85, 60>>, <<"devotion", 75, 55>>,
        <<"faith", 70, 40>>, <<"confidence", 60, 50>>, <<"reliance", 50, 35>>,
        <<"acceptance", 40, 30>>, <<"respect", 55, 40>>, <<"appreciation", 50, 45>> >> >>,
     <<"Anticipation", <<
        <<"eagerness", 70, 85>>, <<"excitement", 75, 90>>, <<"hope", 60, 60>>,
        <<"expectation", 40, 55>>, <<"vigilance", 10, 70>>, <<"interest", 35, 50>>,
        <<"optimism", 65, 55>>, <<"yearning", 20, 60>>, <<"impatience", -10, 70>> >> >> >>

\* constexpr float intensityLevels[3] = {1.0f, 0.6f, 0.3f}
intensityLevels == <<Dec(100), Dec(60), Dec(30)>>

\* the name suffix of an intensity level (line 66)
SuffixOfMutHigh(intensity) ==
    IF intensity = Dec(100) THEN "_high"
    ELSE IF intensity = Dec(60) THEN "_mid" ELSE "_low"

SuffixOf(intensity) ==
    IF intensity = Dec(100) THEN ""
    ELSE IF intensity = Dec(60) THEN "_mid" ELSE "_low"

\* the EmotionNode aggregate of lines 67-76
MakeNode(nodeId, category, v, intensity) ==
    [ id        |-> nodeId,
      name      |-> v[1] \o SuffixOf(intensity),
      category  |-> category,
      intensity |-> intensity,
      valence   |-> FMul(Dec(v[2]), intensity),
      arousal   |-> FMul(Dec(v[3]), intensity),
      musicalAttributes |->
        [ tempoModifier |-> Dec(100) + FMul(FMul(Dec(v[3]), intensity) - Dec(50), Dec(50)),
          mode          |-> IF Dec(v[2]) > 0 THEN "major" ELSE "minor",
          dynamics      |-> intensity ] ]

\* nodes_[nodeId] = node: the entry is created or overwritten
Put(nodes, nodeId, node) == (nodeId :> node) @@ nodes

\* the element of a one-element set: Only({F(r) : r \in {e}}) is
\* LET r == e IN F(r), with e evaluated once, before F
Only(S) == CHOOSE x \in S : TRUE

\* The three nested loops of lines 63-80.  Each loop carries the running
\* counter nodeId and the map built so far, and hands both back.

\* for (float intensity : intensityLevels), from position k
RECURSIVE IntensityLoop(_, _, _, _, _)
IntensityLoop(category, v, k, nodeId, nodes) ==
    IF k > Len(intensityLevels) THEN [nodeId |-> nodeId, nodes |-> nodes]
    ELSE IntensityLoop(category, v, k + 1, nodeId + 1,
                       Put(nodes, nodeId, MakeNode(nodeId, category, v, intensityLevels[k])))

\* for (const auto& v : variants), from position j
RECURSIVE VariantLoop(_, _, _, _, _)
VariantLoop(category, variants, j, nodeId, nodes) ==
    IF j > Len(variants) THEN [nodeId |-> nodeId, nodes |-> nodes]
    ELSE Only({ VariantLoop(category, variants, j + 1, r.nodeId, r.nodes) :
                    r \in {IntensityLoop(category, variants[j], 1, nodeId, nodes)} })

\* for (const auto& [category, variants] : categoryVariants), from position c
RECURSIVE CategoryLoop(_, _, _)
CategoryLoop(c, nodeId, nodes) ==
    IF c > Len(categoryVariants) THEN [nodeId |-> nodeId, nodes |-> nodes]
    ELSE Only({ CategoryLoop(c + 1, r.nodeId, r.nodes) :
                    r \in {VariantLoop(categoryVariants[c][1], categoryVariants[c][2],
                                       1, nodeId, nodes)} })

\* the counter started at 1
initializeEmotionsMutFromOne == CategoryLoop(1, 1, <<>>).nodes

\* int nodeId = 0; the loops; nodes_ starts empty
initializeEmotions == CategoryLoop(1, 0, <<>>).nodes

---------------------------------------------------------------------------
(* EmotionEngine queries *)

\* The map is iterated in ascending key order.  Names are unique and the
\* properties below read a returned vector as a set, so no result depends on
\* the order chosen here.

\* the keys in S between lo and hi, in iteration order
RECURSIVE InOrder(_, _, _)
InOrder(S, lo, hi) ==
    IF lo > hi THEN <<>>
    ELSE IF lo = hi THEN (IF lo \in S THEN <<lo>> ELSE <<>>)
    ELSE InOrder(S, lo, (lo + hi) \div 2) \o InOrder(S, (lo + hi) \div 2 + 1, hi)

\* the first key of S in iteration order
FirstKey(S) == CHOOSE i \in S : \A j \in S : i <= j
LastKey(S) == CHOOSE i \in S : \A j \in S : j <= i

getEmotion(nodes, emotionId) ==
    IF emotionId \in DOMAIN nodes THEN nodes[emotionId] ELSE NULL

\* the scan of lines 89-94: the first node of the iteration whose name
\* matches, or nullptr
findEmotionByName(nodes, name) ==
    LET hits == {id \in DOMAIN nodes : nodes[id].name = name}
    IN IF hits = {} THEN NULL ELSE nodes[FirstKey(hits)]

\* the radicand of the returned square root
calculateDistanceMutNoIntensity(a, b) ==
    LET dv == a.valence - b.valence
        da == a.arousal - b.arousal
    IN dv * dv + da * da

calculateDistance(a, b) ==
    LET dv == a.valence - b.valence
        da == a.arousal - b.arousal
        di == a.intensity - b.intensity
    IN dv * dv + da * da + di * di

\* distance <= threshold
RootLessMutInclusive(radicand, threshold) == threshold >= 0 /\ radicand <= threshold * threshold

\* distance < threshold, for a distance given by its radicand
RootLess(radicand, threshold) == threshold > 0 /\ radicand < threshold * threshold

\* the returned vector of node pointers, each given by the id of its node:
\* the loop of lines 111-118 pushes, in iteration order, every key that is
\* not emotionId and whose node is nearer than threshold
getNearbyEmotions(nodes, emotionId, threshold) ==
    LET source == getEmotion(nodes, emotionId)
        near == {id \in DOMAIN nodes :
                    /\ id # emotionId
                    /\ RootLess(calculateDistance(source, nodes[id]), threshold)}
    IN IF source = NULL \/ near = {} THEN <<>>
       ELSE InOrder(near, FirstKey(near), LastKey(near))

---------------------------------------------------------------------------
(* IntentProcessor::processWound *)

UpperChars == << "A","B","C","D","E","F","G","H","I","J","K","L","M",
                 "N","O","P","Q","R","S","T","U","V","W","X","Y","Z" >>
LowerChars == << "a","b","c","d","e","f","g","h","i","j","k","l","m",
                 "n","o","p","q","r","s","t","u","v","w","x","y","z" >>

\* std::tolower on one character (C locale)
ToLowerChar(c) ==
    IF \E i \in DOMAIN UpperChars : UpperChars[i] = c
    THEN LowerChars[CHOOSE i \in DOMAIN UpperChars : UpperChars[i] = c]
    ELSE c

\* std::transform(desc.begin(), desc.end(), desc.begin(), tolower) (lines 13-14)
ToLower(str) == [i \in DOMAIN str |-> ToLowerChar(str[i])]

npos == 0 - 1

\* std::string::find(pat) from position pos (0-based): the first position at
\* which pat occurs, or npos
RECURSIVE FindAt(_, _, _)
FindAt(str, pat, pos) ==
    IF pos + Len(pat) > Len(str) THEN npos
    ELSE IF \A j \in 1..Len(pat) : str[pos + j] = pat[j] THEN pos
    ELSE FindAt(str, pat, pos + 1)

find(str, pat) == FindAt(str, pat, 0)

kLoss    == <<"l","o","s","s">>
kGrief   == <<"g","r","i","e","f">>
kAnger   == <<"a","n","g","e","r">>
kRage    == <<"r","a","g","e">>
kFear    == <<"f","e","a","r">>
kAnxiety == <<"a","n","x","i","e","t","y">>

\* the anger/rage test made before the loss/grief test
SelectNameMutAngerFirst(desc) ==
    IF find(desc, kAnger) # npos \/ find(desc, kRage) # npos THEN "rage"
    ELSE IF find(desc, kLoss) # npos \/ find(desc, kGrief) # npos THEN "grief"
    ELSE IF find(desc, kFear) # npos \/ find(desc, kAnxiety) # npos THEN "anxiety"
    ELSE "melancholy"

\* the if / else-if chain of lines 16-27: the name that is looked up
SelectName(desc) ==
    IF find(desc, kLoss) # npos \/ find(desc, kGrief) # npos THEN "grief"
    ELSE IF find(desc, kAnger) # npos \/ find(desc, kRage) # npos THEN "rage"
    ELSE IF find(desc, kFear) # npos \/ find(desc, kAnxiety) # npos THEN "anxiety"
    ELSE "melancholy"

\* the return value of processWound (the push_back is in the action)
processWound(nodes, wound) ==
    findEmotionByName(nodes, SelectName(ToLower(wound.description)))

---------------------------------------------------------------------------
(* IntentProcessor::emotionToRuleBreaks *)

\* std::any values: <<type, value>>
AnyInt(n)    == <<"int", n>>
AnyBool(b)   == <<"bool", b>>
AnyFloat(x)  == <<"float", x>>
AnyString(t) == <<"string", t>>

\* the thresholds of lines 34, 46 and 57
DynamicsFiresMutAboveOne(emotion) == emotion.intensity > Dec(100)
DynamicsFires(emotion) == emotion.intensity > Dec(80)
HarmonyFires(emotion)  == emotion.valence < 0 - Dec(50)
RhythmFiresMutInclusive(emotion) == emotion.arousal >= Dec(70)
RhythmFires(emotion)   == emotion.arousal > Dec(70)

DynamicsBreak(emotion) ==
    [ ruleType      |-> "dynamics",
      severity      |-> emotion.intensity,
      description   |-> "Extreme dynamic contrasts",
      musicalImpact |-> ("velocity_min" :> AnyInt(10)) @@ ("velocity_max" :> AnyInt(127))
                        @@ ("sudden_changes" :> AnyBool(TRUE)) ]

HarmonyBreak(emotion) ==
    [ ruleType      |-> "harmony",
      severity      |-> FAbs(emotion.valence),
      description   |-> "Dissonant intervals and clusters",
      musicalImpact |-> ("allow_dissonance" :> AnyBool(TRUE))
                        @@ ("cluster_probability" :> AnyFloat(FAbs(emotion.valence))) ]

RhythmBreak(emotion) ==
    [ ruleType      |-> "rhythm",
      severity      |-> emotion.arousal,
      description   |-> "Irregular rhythms and syncopation",
      musicalImpact |-> ("syncopation_level" :> AnyFloat(emotion.arousal))
                        @@ ("irregular_meters" :> AnyBool(TRUE)) ]

\* the returned vector (the insert into ruleBreaks_ is in the action)
emotionToRuleBreaks(emotion) ==
    (IF DynamicsFires(emotion) THEN <<DynamicsBreak(emotion)>> ELSE <<>>)
    \o (IF HarmonyFires(emotion) THEN <<HarmonyBreak(emotion)>> ELSE <<>>)
    \o (IF RhythmFires(emotion) THEN <<RhythmBreak(emotion)>> ELSE <<>>)

---------------------------------------------------------------------------
(* IntentProcessor::compileMusicalParams *)

\* keys already present are kept (std::map::insert instead of operator[])
OverlayMutInsert(params, impact) ==
    [k \in DOMAIN params \cup DOMAIN impact |->
        IF k \in DOMAIN params THEN params[k] ELSE impact[k]]

\* the inner loop of lines 81-83: params[key] = value for every entry
Overlay(params, impact) ==
    [k \in DOMAIN params \cup DOMAIN impact |->
        IF k \in DOMAIN impact THEN impact[k] ELSE params[k]]

\* the outer loop of lines 80-84 over the remaining rule breaks
RECURSIVE OverlayAll(_, _)
OverlayAll(params, ruleBreaks) ==
    IF ruleBreaks = <<>> THEN params
    ELSE OverlayAll(Overlay(params, Head(ruleBreaks).musicalImpact), Tail(ruleBreaks))

\* lines 76-78
BaseParams(emotion) ==
    ("tempo_modifier" :> AnyFloat(emotion.musicalAttributes.tempoModifier))
    @@ ("mode" :> AnyString(emotion.musicalAttributes.mode))
    @@ ("dynamics" :> AnyFloat(emotion.musicalAttributes.dynamics))

compileMusicalParams(emotion, ruleBreaks) ==
    OverlayAll(BaseParams(emotion), ruleBreaks)

---------------------------------------------------------------------------
(* IntentProcessor::processIntent *)

\* the cumulative log handed on instead of this call's rule breaks
CompiledBreaksMutLog(breaks, log) == log

\* the rule breaks handed to compileMusicalParams on line 97
CompiledBreaks(breaks, log) == breaks

\* the IntentResult of lines 93-99; log is ruleBreaks_ after line 91
IntentResultOf(wound, emotion, breaks, log) ==
    [ wound         |-> wound,
      emotion       |-> emotion,
      ruleBreaks    |-> breaks,
      musicalParams |-> IF emotion # NULL
                        THEN compileMusicalParams(emotion, CompiledBreaks(breaks, log))
                        ELSE <<>> ]

---------------------------------------------------------------------------
(* Inputs *)

\* calls made on one IntentProcessor instance
MaxCalls == 3
\* words in a wound description
MaxWords == 2
\* rule breaks handed to compileMusicalParams
MaxBreaks == 2

Space == <<" ">>

Vocabulary ==
    { <<"l","o","s","s">>, <<"G","R","I","E","F">>, <<"R","a","g","e">>,
      <<"a","n","g","e","r">>, <<"f","e","a","r">>, <<"A","n","x","i","e","t","y">>,
      <<"c","a","l","m">>, <<"c","o","u","r","a","g","e">> }

\* the descriptions of at most n words
RECURSIVE Descriptions(_)
Descriptions(n) ==
    IF n = 0 THEN { <<>> }
    ELSE LET shorter == Descriptions(n - 1)
         IN shorter \cup Vocabulary
                    \cup { d \o Space \o w : d \in shorter \ { <<>> }, w \in Vocabulary }

WoundIntensities == { Dec(30), Dec(100) }

WoundsOf(descriptions) ==
    { [description |-> d, intensity |-> i, source |-> "user"] :
        d \in descriptions, i \in WoundIntensities }

\* the wounds of the single-call specification
AllWounds == WoundsOf(Descriptions(MaxWords))

\* the wounds of the instance specification
FewWounds ==
    { [description |-> <<"l","o","s","s">>, intensity |-> Dec(30), source |-> "user"],
      [description |-> <<"R","a","g","e">>, intensity |-> Dec(100), source |-> "user"],
      [description |-> <<"c","a","l","m">>, intensity |-> Dec(100), source |-> "user"] }

CatalogIds == 0..215

\* ids around and inside the catalog
QueryIds == (0 - 2)..217

\* terror, grief_mid, euphoria, contentment_low
FewIds == { 81, 28, 0, 17 }

QueryNames ==
    { "grief", "rage", "anxiety", "melancholy", "grief_mid", "contentment_low",
      "terror", "impatience_low", "euphoria", "Grief", "grief_high", "" }

Thresholds == { 0 - Dec(10), 0, Dec(1), Dec(30), Dec(40), Dec(75), Dec(300) }

\* rule breaks whose musicalImpact maps share keys with each other and with
\* the base entries
SampleBreaks ==
    { [ ruleType |-> "harmony", severity |-> Dec(50), description |-> "modal shift",
        musicalImpact |-> ("mode" :> AnyString("locrian"))
                          @@ ("allow_dissonance" :> AnyBool(TRUE)) ],
      [ ruleType |-> "harmony", severity |-> Dec(20), description |-> "resolve",
        musicalImpact |-> ("mode" :> AnyString("major"))
                          @@ ("allow_dissonance" :> AnyBool(FALSE)) ],
      [ ruleType |-> "dynamics", severity |-> Dec(90), description |-> "flatten",
        musicalImpact |-> ("dynamics" :> AnyFloat(Dec(10)))
                          @@ ("velocity_max" :> AnyInt(64)) ],
      DynamicsBreak([intensity |-> Dec(100)]) }

RECURSIVE SeqsUpTo(_, _)
SeqsUpTo(S, n) ==
    IF n = 0 THEN { <<>> }
    ELSE LET shorter == SeqsUpTo(S, n - 1)
         IN shorter \cup { Append(q, x) : q \in shorter, x \in S }

---------------------------------------------------------------------------
(* State *)

Init ==
    /\ nodes_ = initializeEmotions
    /\ woundHistory_ = <<>>
    /\ ruleBreaks_ = <<>>
    /\ ret = [op |-> "init"]
    /\ calls = 0
    /\ woundCalls = 0
    /\ returned = <<>>
    /\ firstResult = <<>>

\* woundHistory_.push_back(wound) (line 10)
PushWound(history, wound) == Append(history, wound)

\* the log replaced by this call's rule breaks
AppendLogMutReplace(log, breaks) == breaks

\* ruleBreaks_.insert(ruleBreaks_.end(), breaks.begin(), breaks.end()) (line 67)
AppendLog(log, breaks) == log \o breaks

---------------------------------------------------------------------------
(* EmotionEngine calls *)

GetEmotion(emotionId) ==
    /\ ret' = [op |-> "getEmotion", emotionId |-> emotionId,
               value |-> getEmotion(nodes_, emotionId)]
    /\ calls' = calls + 1
    /\ UNCHANGED <<nodes_, woundHistory_, ruleBreaks_, woundCalls, returned, firstResult>>

FindEmotionByName(name) ==
    /\ ret' = [op |-> "findEmotionByName", name |-> name,
               value |-> findEmotionByName(nodes_, name)]
    /\ calls' = calls + 1
    /\ UNCHANGED <<nodes_, woundHistory_, ruleBreaks_, woundCalls, returned, firstResult>>

CalculateDistance(a, b) ==
    /\ ret' = [op |-> "calculateDistance", a |-> a, b |-> b,
               value |-> calculateDistance(nodes_[a], nodes_[b])]
    /\ calls' = calls + 1
    /\ UNCHANGED <<nodes_, woundHistory_, ruleBreaks_, woundCalls, returned, firstResult>>

GetNearbyEmotions(emotionId, threshold) ==
    /\ ret' = [op |-> "getNearbyEmotions", emotionId |-> emotionId,
               threshold |-> threshold,
               value |-> getNearbyEmotions(nodes_, emotionId, threshold)]
    /\ calls' = calls + 1
    /\ UNCHANGED <<nodes_, woundHistory_, ruleBreaks_, woundCalls, returned, firstResult>>

---------------------------------------------------------------------------
(* IntentProcessor calls *)

ProcessWound(wound) ==
    /\ woundHistory_' = PushWound(woundHistory_, wound)
    /\ ret' = [op |-> "processWound", wound |-> wound,
               value |-> processWound(nodes_, wound)]
    /\ calls' = calls + 1
    /\ woundCalls' = woundCalls + 1
    /\ UNCHANGED <<nodes_, ruleBreaks_, returned, firstResult>>

EmotionToRuleBreaks(emotionId) ==
    LET breaks == emotionToRuleBreaks(nodes_[emotionId])
    IN /\ ruleBreaks_' = AppendLog(ruleBreaks_, breaks)
       /\ ret' = [op |-> "emotionToRuleBreaks", emotionId |-> emotionId, value |-> breaks]
       /\ returned' = returned \o breaks
       /\ calls' = calls + 1
       /\ UNCHANGED <<nodes_, woundHistory_, woundCalls, firstResult>>

CompileMusicalParams(emotionId, ruleBreaks) ==
    /\ ret' = [op |-> "compileMusicalParams", emotionId |-> emotionId,
               ruleBreaks |-> ruleBreaks,
               value |-> compileMusicalParams(nodes_[emotionId], ruleBreaks)]
    /\ calls' = calls + 1
    /\ UNCHANGED <<nodes_, woundHistory_, ruleBreaks_, woundCalls, returned, firstResult>>

ProcessIntent(wound) ==
    LET emotion == processWound(nodes_, wound)
        breaks  == IF emotion # NULL THEN emotionToRuleBreaks(emotion) ELSE <<>>
        log     == IF emotion # NULL THEN AppendLog(ruleBreaks_, breaks) ELSE ruleBreaks_
        result  == IntentResultOf(wound, emotion, breaks, log)
    IN /\ woundHistory_' = PushWound(woundHistory_, wound)
       /\ ruleBreaks_' = log
       /\ ret' = [op |-> "processIntent", wound |-> wound, value |-> result]
       /\ returned' = returned \o breaks
       /\ firstResult' = IF wound \in DOMAIN firstResult THEN firstResult
                         ELSE firstResult @@ (wound :> result)
       /\ calls' = calls + 1
       /\ woundCalls' = woundCalls + 1
       /\ UNCHANGED nodes_

---------------------------------------------------------------------------
(* Specifications *)

\* one IntentProcessor instance and the calls made on it, one after another
Next ==
    \/ calls < MaxCalls /\ \E w \in FewWounds : ProcessWound(w)
    \/ calls < MaxCalls /\ \E id \in FewIds : EmotionToRuleBreaks(id)
    \/ calls < MaxCalls /\ \E w \in FewWounds : ProcessIntent(w)

Spec == Init /\ [][Next]_vars

\* every operation applied once to freshly constructed objects, its inputs
\* drawn from the whole bounded input sets
NextCalls ==
    \/ calls = 0 /\ \E id \in QueryIds : GetEmotion(id)
    \/ calls = 0 /\ \E name \in QueryNames : FindEmotionByName(name)
    \/ calls = 0 /\ \E a \in CatalogIds, b \in CatalogIds : CalculateDistance(a, b)
    \/ calls = 0 /\ \E id \in QueryIds, t \in Thresholds : GetNearbyEmotions(id, t)
    \/ calls = 0 /\ \E w \in AllWounds : ProcessWound(w)
    \/ calls = 0 /\ \E id \in CatalogIds : EmotionToRuleBreaks(id)
    \/ calls = 0 /\ \E id \in FewIds, rbs \in SeqsUpTo(SampleBreaks, MaxBreaks) :
                        CompileMusicalParams(id, rbs)
    \/ calls = 0 /\ \E w \in AllWounds : ProcessIntent(w)

SpecCalls == Init /\ [][NextCalls]_vars

---------------------------------------------------------------------------
(* Properties *)

\* c and p are the same letter, whatever their case
SameLetter(c, p) ==
    \/ c = p
    \/ \E i \in DOMAIN UpperChars :
          {c, p} \subseteq {UpperChars[i], LowerChars[i]}

\* word occurs somewhere in str, letter case ignored
Occurs(str, word) ==
    \E i \in 0..(Len(str) - Len(word)) :
        \A j \in 1..Len(word) : SameLetter(str[i + j], word[j])

\* the name the first trigger group present in str stands for
GroupName(str) ==
    CASE Occurs(str, kLoss) \/ Occurs(str, kGrief)      -> "grief"
      [] ~(Occurs(str, kLoss) \/ Occurs(str, kGrief))
         /\ (Occurs(str, kAnger) \/ Occurs(str, kRage)) -> "rage"
      [] ~(Occurs(str, kLoss) \/ Occurs(str, kGrief))
         /\ ~(Occurs(str, kAnger) \/ Occurs(str, kRage))
         /\ (Occurs(str, kFear) \/ Occurs(str, kAnxiety)) -> "anxiety"
      [] OTHER -> "melancholy"

\* C1: processWound returns the catalog entry named after the first trigger
\* group (loss/grief, anger/rage, fear/anxiety, in this order) that occurs in
\* the description, letter case and position ignored, and the entry named
\* "melancholy" when none occurs.
C1_ClassifyPriority ==
    ret.op = "processWound" =>
        /\ ret.value # NULL
        /\ ret.value = nodes_[ret.value.id]
        /\ ret.value.name = GroupName(ret.wound.description)

\* "Rage loss": the rage trigger comes first in the text, loss decides
C1_Witness ==
    /\ ret.op = "processWound"
    /\ ret.wound.description = <<"R","a","g","e"," ","l","o","s","s">>
    /\ ret.value.name = "grief"

RuleOrder == <<"dynamics", "harmony", "rhythm">>

\* the rule types whose condition holds for e, in rule order
FiringRules(e) ==
    LET Holds(t) == \/ t = "dynamics" /\ e.intensity > 8000
                    \/ t = "harmony" /\ e.valence < 0 - 5000
                    \/ t = "rhythm" /\ e.arousal > 7000
    IN SelectSeq(RuleOrder, Holds)

\* C2: for every catalog entry emotionToRuleBreaks returns exactly the rule
\* breaks whose strict threshold condition holds (intensity > 0.8, valence <
\* -0.5, arousal > 0.7), at most one per rule, in the order dynamics, harmony,
\* rhythm; terror yields all three, contentment_low none.
C2_RuleBreaksPerEntry ==
    ret.op = "emotionToRuleBreaks" =>
        LET e == nodes_[ret.emotionId]
            types == [i \in DOMAIN ret.value |-> ret.value[i].ruleType]
        IN /\ types = FiringRules(e)
           /\ e.name = "terror" => types = RuleOrder
           /\ e.name = "contentment_low" => types = <<>>

C2_Witness ==
    /\ ret.op = "emotionToRuleBreaks"
    /\ nodes_[ret.emotionId].name = "terror"
    /\ Len(ret.value) = 3
    /\ ret.value[3].ruleType = "rhythm"

\* the elements of a sequence
Range(q) == {q[i] : i \in DOMAIN q}

\* C3: for a catalog id, getNearbyEmotions returns, as a set and without
\* repetition, exactly the other entries at distance strictly less than the
\* threshold (none for a threshold <= 0); for any other id it returns an empty
\* result.
C3_NeighborsExact ==
    ret.op = "getNearbyEmotions" =>
        IF ret.emotionId \in DOMAIN nodes_
        THEN /\ Range(ret.value) =
                  {id \in DOMAIN nodes_ :
                      /\ id # ret.emotionId
                      /\ ret.threshold > 0
                      /\ calculateDistance(nodes_[ret.emotionId], nodes_[id])
                            < ret.threshold * ret.threshold}
             /\ Cardinality(Range(ret.value)) = Len(ret.value)
             /\ ret.threshold <= 0 => ret.value = <<>>
        ELSE ret.value = <<>>

\* cheerfulness, threshold 0.3: some entries are near, some are not, and
\* confidence, at distance 0, is among the near ones
C3_Witness ==
    /\ ret.op = "getNearbyEmotions"
    /\ ret.emotionId = 24
    /\ ret.threshold = Dec(30)
    /\ 174 \in Range(ret.value)
    /\ Len(ret.value) > 1
    /\ Len(ret.value) < 215

Point(e) == <<e.valence, e.arousal, e.intensity>>

\* C4 as stated: two catalog entries with different ids are different points
\* and at distance # 0.
C4_DistinctIdsDistinctPoints ==
    ret.op = "calculateDistance" /\ ret.a # ret.b =>
        /\ Point(nodes_[ret.a]) # Point(nodes_[ret.b])
        /\ ret.value # 0

\* C4, amended: the distance of two entries is zero exactly when their points
\* (valence, arousal, intensity) are equal; that is so for an entry and
\* itself, never for two entries of one category, and only at one and the
\* same intensity level.
C4_ZeroIffSamePoint ==
    ret.op = "calculateDistance" =>
        LET a == nodes_[ret.a]
            b == nodes_[ret.b]
        IN /\ ret.value = 0 <=> Point(a) = Point(b)
           /\ ret.a = ret.b => ret.value = 0
           /\ ret.a # ret.b /\ a.category = b.category => ret.value # 0
           /\ a.intensity # b.intensity => ret.value # 0

\* cheerfulness (Joy) and confidence (Trust): different ids, distance 0
C4_Witness ==
    /\ ret.op = "calculateDistance"
    /\ nodes_[ret.a].name = "cheerfulness"
    /\ nodes_[ret.b].name = "confidence"
    /\ ret.value = 0

Suffixes == <<"", "_mid", "_low">>

\* C5: the catalog holds exactly the ids 0..215; the entry of category c,
\* variant v and intensity level k (counted from 0, levels in the order 1.0,
\* 0.6, 0.3) has id 27c + 3v + k, stored in its id field; getEmotion returns
\* that entry for every id in 0..215 and nullptr for any other id.
C5_DenseIds ==
    /\ DOMAIN nodes_ = 0..215
    /\ \A c \in 0..7, v \in 0..8, k \in 0..2 :
          LET e == nodes_[27 * c + 3 * v + k]
          IN /\ e.id = 27 * c + 3 * v + k
             /\ e.category = categoryVariants[c + 1][1]
             /\ e.name = categoryVariants[c + 1][2][v + 1][1] \o Suffixes[k + 1]
             /\ e.intensity = <<10000, 6000, 3000>>[k + 1]
    /\ ret.op = "getEmotion" =>
          IF ret.emotionId \in 0..215
          THEN ret.value # NULL /\ ret.value.id = ret.emotionId
               /\ ret.value = nodes_[ret.emotionId]
          ELSE ret.value = NULL

\* the last id is found, and is the last variant at the lowest level
C5_Witness ==
    /\ ret.op = "getEmotion"
    /\ ret.emotionId = 215
    /\ ret.value # NULL
    /\ ret.value.name = "impatience_low"

LookedUpNames == {"grief", "rage", "anxiety", "melancholy"}
BaseKeys == {"tempo_modifier", "mode", "dynamics"}

\* C6: the four names classification looks up are in the catalog, so
\* processIntent always returns an emotion; the parameter mapping is empty
\* exactly when the emotion is absent (and then there are no rule breaks), so
\* it is never empty and always has tempo_modifier, mode and dynamics.
C6_AlwaysAnEmotion ==
    /\ ret.op = "findEmotionByName" /\ ret.name \in LookedUpNames =>
          ret.value # NULL /\ ret.value.name = ret.name
    /\ ret.op = "processIntent" =>
          LET r == ret.value
          IN /\ r.emotion # NULL
             /\ r.emotion.name \in LookedUpNames
             /\ DOMAIN r.musicalParams = {} <=> r.emotion = NULL
             /\ r.emotion = NULL => r.ruleBreaks = <<>>
             /\ BaseKeys \subseteq DOMAIN r.musicalParams

\* a description with no trigger: the default branch finds its entry
C6_Witness ==
    /\ ret.op = "processIntent"
    /\ ret.wound.description = <<"c","a","l","m">>
    /\ ret.value.emotion # NULL
    /\ ret.value.emotion.name = "melancholy"
    /\ BaseKeys \subseteq DOMAIN ret.value.musicalParams

\* q is p with elements added at its end
Extends(q, p) == Len(q) >= Len(p) /\ SubSeq(q, 1, Len(p)) = p

\* C7: a processIntent call returns what the first processIntent call with the
\* same wound returned on this instance, whatever calls were made in between
\* and whatever the two logs hold; every call leaves what the logs held in
\* place.
C7_Idempotent ==
    /\ [](ret.op = "processIntent" =>
            /\ ret.wound \in DOMAIN firstResult
            /\ ret.value = firstResult[ret.wound])
    /\ [][/\ Extends(woundHistory_', woundHistory_)
          /\ Extends(ruleBreaks_', ruleBreaks_)]_vars

\* the third call repeats the first one, with a direct emotionToRuleBreaks
\* call on another emotion in between
C7_Witness ==
    /\ ret.op = "processIntent"
    /\ calls = 3
    /\ Len(woundHistory_) = 2
    /\ woundHistory_[1] = ret.wound
    /\ Len(ruleBreaks_) > 2 * Len(ret.value.ruleBreaks)
    /\ ret.value = firstResult[ret.wound]

\* the largest element of a nonempty set of numbers
Max(S) == CHOOSE i \in S : \A j \in S : j <= i

BaseValue(e, key) ==
    CASE key = "tempo_modifier" -> <<"float", e.musicalAttributes.tempoModifier>>
      [] key = "mode"           -> <<"string", e.musicalAttributes.mode>>
      [] key = "dynamics"       -> <<"float", e.musicalAttributes.dynamics>>

\* C8: the keys of the compiled mapping are the three base keys and every
\* musicalImpact key; a key in some rule break has the value of the last rule
\* break of the sequence that has it, any other key its base value.
C8_LastWins ==
    ret.op = "compileMusicalParams" =>
        LET e == nodes_[ret.emotionId]
            rbs == ret.ruleBreaks
            p == ret.value
        IN /\ DOMAIN p = BaseKeys \cup UNION {DOMAIN rbs[i].musicalImpact : i \in DOMAIN rbs}
           /\ \A key \in DOMAIN p :
                 LET having == {i \in DOMAIN rbs : key \in DOMAIN rbs[i].musicalImpact}
                 IN IF having = {} THEN p[key] = BaseValue(e, key)
                    ELSE p[key] = rbs[Max(having)].musicalImpact[key]

\* two rule breaks that both set mode, on a minor emotion: the second wins
C8_Witness ==
    /\ ret.op = "compileMusicalParams"
    /\ nodes_[ret.emotionId].musicalAttributes.mode = "minor"
    /\ Len(ret.ruleBreaks) = 2
    /\ \A i \in 1..2 : "mode" \in DOMAIN ret.ruleBreaks[i].musicalImpact
    /\ ret.ruleBreaks[1].musicalImpact["mode"] = <<"string", "locrian">>
    /\ ret.ruleBreaks[2].musicalImpact["mode"] = <<"string", "major">>
    /\ ret.value["mode"] = <<"string", "major">>

\* C9: processWound and processIntent append the wound, and nothing else, to
\* the history; emotionToRuleBreaks and processIntent append the rule breaks
\* they return, in order, to the log; no call changes what is already there.
\* So the history is as long as the number of processWound / processIntent
\* calls and the log is the concatenation of all returned rule breaks.
C9_AppendOnly ==
    /\ [][/\ ret'.op \in {"processWound", "processIntent"} =>
                woundHistory_' = Append(woundHistory_, ret'.wound)
          /\ ret'.op = "processWound" => ruleBreaks_' = ruleBreaks_
          /\ ret'.op = "emotionToRuleBreaks" =>
                /\ woundHistory_' = woundHistory_
                /\ ruleBreaks_' = ruleBreaks_ \o ret'.value
          /\ ret'.op = "processIntent" =>
                ruleBreaks_' = ruleBreaks_ \o ret'.value.ruleBreaks]_vars
    /\ [](/\ Len(woundHistory_) = woundCalls
          /\ ruleBreaks_ = returned)

\* three calls, two of them with a wound, the log longer than any one return
C9_Witness ==
    /\ calls = 3
    /\ woundCalls = 2
    /\ Len(woundHistory_) = 2
    /\ ret.op = "emotionToRuleBreaks"
    /\ Len(ret.value) = 3
    /\ Len(ruleBreaks_) > 3

\* C10: every processIntent result refers to an entry of intensity 1.0 with
\* an un-suffixed name, so its rule breaks start with a "dynamics" rule break
\* of severity 1.0, whatever the wound's description and intensity.
C10_AlwaysDynamics ==
    ret.op = "processIntent" =>
        LET r == ret.value
        IN /\ r.emotion.intensity = 10000
           /\ r.emotion.name \in LookedUpNames
           /\ r.ruleBreaks # <<>>
           /\ r.ruleBreaks[1].ruleType = "dynamics"
           /\ r.ruleBreaks[1].severity = 10000

\* a wound of intensity 0.3 still selects the full-intensity entry
C10_Witness ==
    /\ ret.op = "processIntent"
    /\ ret.wound.intensity = Dec(30)
    /\ ret.value.emotion.name = "grief"
    /\ ret.value.ruleBreaks[1].ruleType = "dynamics"

=============================================================================
